---- MODULE Spec2Model ----
(***************************************************************************)
(* ShaderCopilot agent: the shader-generation workflow (graphs/shader_gen), *)
(* the pending-callback maps of the WebSocket message handler              *)
(* (server/message_handler.py) and the connection manager                  *)
(* (server/websocket_server.py).                                           *)
(*                                                                         *)
(* A task is one call of ShaderGenRunner.run.  Its graph nodes are the     *)
(* actions AnalyzeImage .. FinalizeFailure; the conditional edges of       *)
(* create_shader_gen_graph are evaluated by the node action they leave.    *)
(* The second ainvoke of run() is modelled as graph.py:212 documents it:   *)
(* it resumes the graph at the compile_check node.                         *)
(*                                                                         *)
(* on_tool_call is UnityTools.compile_shader: it sends a tool call under a *)
(* fresh id and waits for the response; the wait is the callback stored by *)
(* register_tool_callback, which _handle_tool_response pops and awaits.    *)
(***************************************************************************)
EXTENDS Integers, FiniteSets, Sequences, TLC

\* ---------------------------------------------------------------- bounds
NumTasks == 2
NumConns == 2
NumIds == 2
MaxCeiling == 3
MaxExt == 2
\* the longest validate/fix loop the model tells apart: the fix stages of one loop
\* are counted up to MaxFixIterations + 1
MaxFixIterations == 3
\* the longest conversation and the longest shader history of a session
MaxMessages == 3
MaxShaderCalls == 3
\* sessions a ConnectionManager registers, messages in a SessionState's history
MaxSessions == 2
MaxHistory == 2
\* frames a websocket receives
MaxFrames == 3

Tasks == 1..NumTasks
Conns == 1..NumConns
\* the confirm ids a caller of register_confirm_callback may pass
Ids == 1..NumIds
\* the ids uuid4() hands to the tool calls of run(): never one that was used before
CallsPerTask == MaxCeiling + 1
TaskCallId(t, n) == (t - 1) * CallsPerTask + n
\* an id uuid4() never handed out: no task issues CallsPerTask calls
StrayId == TaskCallId(NumTasks, CallsPerTask)
None == "None"
\* connections, ids and tasks are numbered from 1: 0 stands for Python's None
\* where one of them is expected
NoCallback == [kind |-> None, conn |-> 0, owner |-> 0, n |-> 0]

VARIABLES
    tasks,               \* run(): the ShaderGenState of each task and where run() stands
    pending_tool_calls,  \* MessageHandler._pending_tool_calls: id -> callback
    pending_confirms,    \* MessageHandler._pending_confirms: id -> callback
    connections,         \* ConnectionManager.connections: websocket -> session or None
    closed,              \* websockets whose _connection_handler has finished
    nextExt,             \* confirm callbacks registered so far
    invoked,             \* history: the callbacks that have been awaited
    reinvoked,           \* history: the callbacks that have been awaited more than once
    last,                \* the most recent message handled and handle_message's return
    vstate,              \* a ShaderGenState with its generated_code spelled out
    sm_sessions,         \* SessionManager._sessions: session id -> Session
    sm_files,            \* the <session id>.json files under SessionManager._storage_path
    storage_path,        \* whether the SessionManager was given a storage_path
    ret,                 \* the most recent SessionManager / Session call and its return
    cm_sessions,         \* ConnectionManager.sessions: session_id -> SessionState
    conn_loop            \* _connection_handler of each websocket: its socket and position

\* the state outside the server and the workflow
libVars == <<vstate, sm_sessions, sm_files, storage_path, ret>>

\* the sessions of the ConnectionManager and the read loops of the connections
cmVars == <<cm_sessions, conn_loop>>

vars == <<tasks, pending_tool_calls, pending_confirms, connections, closed,
          nextExt, invoked, reinvoked, last, vstate, sm_sessions, sm_files,
          storage_path, ret, cm_sessions, conn_loop>>

\* ------------------------------------------------------------ task state

\* ShaderGenState as run() constructs it, with run()'s arguments.
\* code_valid abstracts generated_code: whether it passes validate_shader.
\* compile_errors abstracts compile_result.errors: the number of the tool call whose
\* errors it holds, 0 for none.  error_lists: the tool calls whose errors the text
\* of `error` lists.  error_history: the entries of the list, each the number of
\* the tool call it describes.
\* prompt_errors: the tool call whose errors the latest generate_shader prompt
\* quoted, 0 for none.
\* pc, inv, conn, calls, failures, tool_call_id locate the task inside run();
\* fix_iterations counts the fix stages of the validate/fix loop the task is in.
InitialState(c, img, mx) ==
    [pc |-> "entry", inv |-> 1, conn |-> c,
     reference_image |-> img, max_retries |-> mx, retry_count |-> 0,
     code_valid |-> FALSE, validation_passed |-> FALSE,
     compile_result |-> "pending", compile_errors |-> 0,
     error_history |-> <<>>,
     is_complete |-> FALSE, error |-> None, error_lists |-> <<>>,
     current_stage |-> "init",
     tool_call_id |-> 0, calls |-> 0, failures |-> 0, fix_iterations |-> 0,
     prompt_errors |-> 0]

IdleState ==
    [InitialState(0, FALSE, 0) EXCEPT !.pc = "idle"]

can_retry(s) == s.retry_count < s.max_retries

\* the entry edge that never routes to analyze_image
check_has_imageSkips(s) == "analyze"

check_has_image(s) == IF s.reference_image THEN "analyze_image" ELSE "analyze"

check_should_compile(s) == IF s.validation_passed THEN "compile" ELSE "fix"

\* the retry counter incremented whatever the result
handle_compile_resultCountsAll(s) ==
    [s EXCEPT !.retry_count = @ + 1,
              !.current_stage = IF s.compile_result = "success"
                                THEN "compiled" ELSE "compile_failed"]

handle_compile_result(s) ==
    IF s.compile_result = "success"
    THEN [s EXCEPT !.current_stage = "compiled"]
    ELSE [s EXCEPT !.retry_count = @ + 1, !.current_stage = "compile_failed"]

\* the edge after compile_check that never routes to fail
check_should_retryAlways(s) ==
    IF s.compile_result = "success" THEN "success" ELSE "retry"

check_should_retry(s) ==
    IF s.compile_result = "success" THEN "success"
    ELSE IF can_retry(s) THEN "retry"
    ELSE "fail"

prepare_retry(s) == [s EXCEPT !.current_stage = "retrying"]

finalize_success(s) == [s EXCEPT !.is_complete = TRUE, !.current_stage = "complete"]

\* "... failed after maximum retry attempts." followed by "Final errors:" and
\* compile_result.errors when there are any
finalize_failure(s) ==
    [s EXCEPT !.is_complete = TRUE, !.error = "max_retries",
              !.error_lists = IF s.compile_errors # 0 THEN <<s.compile_errors>> ELSE <<>>,
              !.current_stage = "failed"]

\* ------------------------------------------------------------- callbacks

\* A callback is identified by who created it: the map it is for (kind), the
\* connection it serves, and its creator: a task and the number of its tool
\* call, or 0 and a serial number for a confirmation.
Callback(kind, c, owner, n) ==
    [kind |-> kind, conn |-> c, owner |-> owner, n |-> n]

Awaited(cb) ==
    /\ invoked' = invoked \cup {cb}
    /\ reinvoked' = IF cb \in invoked THEN reinvoked \cup {cb} ELSE reinvoked

\* the record of a handled message.  id: the correlation id of a well-formed
\* reply, else 0; callback: the callback the reply found pending and awaited, else
\* NoCallback; raised: whether that callback raised; response: what handle_message
\* returned; session_id, is_new: the payload of a SESSION_READY response
NoMsg ==
    [conn |-> 0, type |-> None, id |-> 0, callback |-> NoCallback, raised |-> FALSE,
     response |-> None, session_id |-> None, is_new |-> FALSE]

HandledMsg(c, type, id, cb, response) ==
    last' = [NoMsg EXCEPT !.conn = c, !.type = type, !.id = id, !.callback = cb,
                          !.response = response]

\* dict[key] = value
DictSet(d, k, v) == [x \in DOMAIN d \cup {k} |-> IF x = k THEN v ELSE d[x]]

\* dict.get in place of dict.pop: the entry stays
DictDelKeeps(d, k) == d

\* dict.pop(key, None): the dict without the key
DictDel(d, k) == [x \in DOMAIN d \ {k} |-> d[x]]

\* a lookup that falls back to some pending entry when the key is absent
DictGetFallsBack(d, k) ==
    IF k \in DOMAIN d THEN d[k]
    ELSE IF DOMAIN d # {} THEN d[CHOOSE x \in DOMAIN d : TRUE]
    ELSE NoCallback

\* dict.pop(key, None): the value popped
DictGet(d, k) == IF k \in DOMAIN d THEN d[k] ELSE NoCallback

\* ------------------------------------------------- validate_shader, on text

\* generated_code as a sequence of pieces of text.  CodeTemplate is a complete URP
\* shader; the codes validated are the template with any of its pieces left out.
CodeTemplate ==
    <<"Shader", " \"", "Sub", "Shader", " \"", "Pass", "#pragma vertex",
      "#pragma fragment", "com.unity.render-pipelines", "HLSLPROGRAM", "ENDHLSL">>

RECURSIVE Keep(_, _, _)
\* the pieces of seq, from position i on, whose position is in the set kept
Keep(seq, kept, i) ==
    IF i > Len(seq) THEN <<>>
    ELSE IF i \in kept THEN <<seq[i]>> \o Keep(seq, kept, i + 1)
    ELSE Keep(seq, kept, i + 1)

Codes == {Keep(CodeTemplate, kept, 1) : kept \in SUBSET (1..Len(CodeTemplate))}

\* Python's `pattern in code` for str: the pattern occurs as a substring
In(pattern, code) ==
    \E i \in 1..(Len(code) - Len(pattern) + 1) :
        SubSeq(code, i, i + Len(pattern) - 1) = pattern

\* a ShaderGenState that holds `code`, before validate_shader has seen it;
\* runs counts the validate_shader calls on it, up to 2
CodeState(code) ==
    [generated_code |-> code, validation_passed |-> FALSE, validation_errors |-> <<>>,
     current_stage |-> "generated", retry_count |-> 0, runs |-> 0]

\* a checklist in which a deficiency hides the items after it
validate_shaderChained(s) ==
    LET code == s.generated_code
        e == IF ~In(<<"Shader", " \"">>, code) /\ ~In(<<"Shader", " \"">>, code)
                 THEN <<"Missing Shader declaration">>
             ELSE IF ~In(<<"Sub", "Shader">>, code) THEN <<"Missing SubShader block">>
             ELSE IF ~In(<<"Pass">>, code) THEN <<"Missing Pass block">>
             ELSE IF ~In(<<"#pragma vertex">>, code)
                 THEN <<"Missing #pragma vertex directive">>
             ELSE IF ~In(<<"#pragma fragment">>, code)
                 THEN <<"Missing #pragma fragment directive">>
             ELSE IF ~In(<<"com.unity.render-pipelines">>, code)
                 THEN <<"Missing URP include (Packages/com.unity.render-pipelines.universal/...)">>
             ELSE IF ~In(<<"HLSLPROGRAM">>, code) THEN <<"Missing HLSLPROGRAM block (using CGPROGRAM instead of HLSL?)">>
             ELSE IF ~In(<<"ENDHLSL">>, code) THEN <<"Missing ENDHLSL">>
             ELSE <<>>
        is_valid == Len(e) = 0
    IN [s EXCEPT !.validation_passed = is_valid,
                 !.validation_errors = e,
                 !.current_stage = IF is_valid THEN "validated" ELSE "validation_failed"]

\* a validation that adds its findings to the list the state already holds
validate_shaderAccumulates(s) ==
    LET code == s.generated_code
        e == s.validation_errors \o
               (IF ~In(<<"Pass">>, code) THEN <<"Missing Pass block">> ELSE <<>>) \o
               (IF ~In(<<"ENDHLSL">>, code) THEN <<"Missing ENDHLSL">> ELSE <<>>)
        is_valid == Len(e) = 0
    IN [s EXCEPT !.validation_passed = is_valid,
                 !.validation_errors = e,
                 !.current_stage = IF is_valid THEN "validated" ELSE "validation_failed"]

\* validate_shader on the text of generated_code: eight `if ... not in code:
\* validation_errors.append(...)` in a row, then is_valid = len(...) == 0
validate_shader_code(s) ==
    LET code == s.generated_code
        e0 == <<>>
        e1 == IF ~In(<<"Shader", " \"">>, code) /\ ~In(<<"Shader", " \"">>, code)
              THEN Append(e0, "Missing Shader declaration") ELSE e0
        e2 == IF ~In(<<"Sub", "Shader">>, code)
              THEN Append(e1, "Missing SubShader block") ELSE e1
        e3 == IF ~In(<<"Pass">>, code)
              THEN Append(e2, "Missing Pass block") ELSE e2
        e4 == IF ~In(<<"#pragma vertex">>, code)
              THEN Append(e3, "Missing #pragma vertex directive") ELSE e3
        e5 == IF ~In(<<"#pragma fragment">>, code)
              THEN Append(e4, "Missing #pragma fragment directive") ELSE e4
        e6 == IF ~In(<<"com.unity.render-pipelines">>, code)
              THEN Append(e5, "Missing URP include (Packages/com.unity.render-pipelines.universal/...)")
              ELSE e5
        e7 == IF ~In(<<"HLSLPROGRAM">>, code)
              THEN Append(e6, "Missing HLSLPROGRAM block (using CGPROGRAM instead of HLSL?)")
              ELSE e6
        validation_errors == IF ~In(<<"ENDHLSL">>, code)
                             THEN Append(e7, "Missing ENDHLSL") ELSE e7
        is_valid == Len(validation_errors) = 0
    IN [s EXCEPT !.validation_passed = is_valid,
                 !.validation_errors = validation_errors,
                 !.current_stage = IF is_valid THEN "validated" ELSE "validation_failed"]

ServerFrame == UNCHANGED <<tasks, pending_tool_calls, pending_confirms, connections,
                           closed, nextExt, invoked, reinvoked, last, cmVars>>

\* the validate node runs on the state
ValidateCode ==
    /\ vstate.runs < 2
    /\ vstate' = [validate_shader_code(vstate) EXCEPT !.runs = @ + 1]
    /\ ServerFrame
    /\ UNCHANGED <<sm_sessions, sm_files, storage_path, ret>>

\* ------------------------------------------------------------- sessions

SessionIds == {1, 2}

\* Message(role, content); "tool" is a role build_context has no prefix for
Messages == {[role |-> r, content |-> "a"] : r \in {"user", "assistant", "tool"}}

\* shader code: "" is falsy in `if self.current_shader`
ShaderCodes == {"", "A", "B"}

ShaderVersion(code, compile_success) ==
    [code |-> code, compile_success |-> compile_success]

\* Session(session_id=id)
Session(id) ==
    [session_id |-> id, messages |-> <<>>, current_shader |-> "",
     shader_history |-> <<>>]

add_message(session, msg) ==
    [session EXCEPT !.messages = Append(@, msg)]

\* the previous shader appended whenever there is one
set_current_shaderKeepsPrevious(session, code, compile_success) ==
    LET history == IF session.current_shader # ""
                   THEN Append(session.shader_history,
                               ShaderVersion(session.current_shader, FALSE))
                   ELSE session.shader_history
    IN [session EXCEPT !.current_shader = code,
                       !.shader_history =
                           Append(history, ShaderVersion(code, compile_success))]

\* Session.set_current_shader: the previous shader goes to the history first when
\* there is one and no version of the history has its code
set_current_shader(session, code, compile_success) ==
    LET existing == {i \in DOMAIN session.shader_history :
                        session.shader_history[i].code = session.current_shader}
        history == IF session.current_shader # "" /\ existing = {}
                   THEN Append(session.shader_history,
                               ShaderVersion(session.current_shader, FALSE))
                   ELSE session.shader_history
    IN [session EXCEPT !.current_shader = code,
                       !.shader_history =
                           Append(history, ShaderVersion(code, compile_success))]

Max(a, b) == IF a > b THEN a ELSE b

\* Python's seq[-k:] for k >= 0: a start of -k counts from the end and is clipped
\* at 0, and -0 is 0, the start of the list
PyTail(seq, k) ==
    LET n == Len(seq)
        start == IF -k < 0 THEN Max(n - k, 0) ELSE 0
    IN SubSeq(seq, start + 1, n)

\* the prefix build_context writes before a message
Prefix(role) ==
    CASE role = "user" -> "User"
      [] role = "assistant" -> "Assistant"
      [] role = "system" -> "System"
      [] OTHER -> role

\* Session.build_context(max_messages): the parts of the context string, one
\* "<prefix>: <content>" per recent message
build_context(session, max_messages) ==
    LET recent == IF Len(session.messages) > max_messages
                  THEN PyTail(session.messages, max_messages)
                  ELSE session.messages
    IN [i \in DOMAIN recent |->
          [prefix |-> Prefix(recent[i].role), content |-> recent[i].content]]

\* SessionState.get_context_messages(max_messages)
get_context_messages(conversation_history, max_messages) ==
    PyTail(conversation_history, max_messages)

\* Session.to_dict, as json.dump writes it: an object of key/value pairs, the
\* messages and versions objects themselves
to_dictDropsHistory(session) ==
    <<<<"session_id", session.session_id>>,
      <<"messages", [i \in DOMAIN session.messages |->
                       <<<<"role", session.messages[i].role>>,
                         <<"content", session.messages[i].content>>>>]>>,
      <<"current_shader", "">>,
      <<"shader_history", <<>>>>>>

to_dict(session) ==
    <<<<"session_id", session.session_id>>,
      <<"messages", [i \in DOMAIN session.messages |->
                       <<<<"role", session.messages[i].role>>,
                         <<"content", session.messages[i].content>>>>]>>,
      <<"current_shader", session.current_shader>>,
      <<"shader_history", [i \in DOMAIN session.shader_history |->
                       <<<<"code", session.shader_history[i].code>>,
                         <<"compile_success",
                           session.shader_history[i].compile_success>>>>]>>>>

\* the value of a key of a JSON object
Field(object, key) ==
    object[CHOOSE i \in DOMAIN object : object[i][1] = key][2]

\* Session.from_dict on what json.load read
from_dict(data) ==
    [session_id |-> Field(data, "session_id"),
     messages |-> [i \in DOMAIN Field(data, "messages") |->
                     [role |-> Field(Field(data, "messages")[i], "role"),
                      content |-> Field(Field(data, "messages")[i], "content")]],
     current_shader |-> Field(data, "current_shader"),
     shader_history |-> [i \in DOMAIN Field(data, "shader_history") |->
                     ShaderVersion(Field(Field(data, "shader_history")[i], "code"),
                                   Field(Field(data, "shader_history")[i],
                                         "compile_success"))]]

\* What a call returned.  obj: "stored" when it returned the Session object that
\* _sessions holds under id, "none" for None; ok: a bool returned; loaded: whether
\* _load_session read the file; code, compile_success, k: arguments; context: the
\* parts build_context joined or the messages get_context_messages returned;
\* list: the list list_sessions returned.
NoCall ==
    [op |-> None, id |-> 0, obj |-> "none", ok |-> FALSE, loaded |-> FALSE,
     code |-> "", compile_success |-> FALSE, k |-> 0, context |-> <<>>, list |-> <<>>]

Returned(op, id) == [NoCall EXCEPT !.op = op, !.id = id]

SessionFrame == UNCHANGED <<tasks, pending_tool_calls, pending_confirms, connections,
                            closed, nextExt, invoked, reinvoked, last, vstate,
                            storage_path, cmVars>>

\* SessionManager.create_session(session_id)
CreateSession(id) ==
    /\ sm_sessions' = DictSet(sm_sessions, id, Session(id))
    /\ ret' = [Returned("create_session", id) EXCEPT !.obj = "stored"]
    /\ UNCHANGED sm_files
    /\ SessionFrame

\* SessionManager._load_session: the file parsed, or None
CanLoad(id) == storage_path /\ id \in DOMAIN sm_files

\* SessionManager.get_session(session_id)
GetSession(id) ==
    /\ IF id \in DOMAIN sm_sessions
       THEN /\ ret' = [Returned("get_session", id) EXCEPT !.obj = "stored"]
            /\ UNCHANGED sm_sessions
       ELSE IF CanLoad(id)
       THEN /\ sm_sessions' = DictSet(sm_sessions, id, from_dict(sm_files[id]))
            /\ ret' = [Returned("get_session", id) EXCEPT !.obj = "stored",
                                                            !.loaded = TRUE]
       ELSE /\ ret' = Returned("get_session", id)
            /\ UNCHANGED sm_sessions
    /\ UNCHANGED sm_files
    /\ SessionFrame

\* a get_or_create_session that does not look first
GetOrCreateSessionAlwaysCreates(id) ==
    /\ sm_sessions' = DictSet(sm_sessions, id, Session(id))
    /\ ret' = [Returned("get_or_create_session", id) EXCEPT !.obj = "stored"]
    /\ UNCHANGED sm_files
    /\ SessionFrame

\* SessionManager.get_or_create_session(session_id): get_session, then
\* create_session if that returned None
GetOrCreateSession(id) ==
    /\ IF id \in DOMAIN sm_sessions
       THEN /\ ret' = [Returned("get_or_create_session", id) EXCEPT !.obj = "stored"]
            /\ UNCHANGED sm_sessions
       ELSE IF CanLoad(id)
       THEN /\ sm_sessions' = DictSet(sm_sessions, id, from_dict(sm_files[id]))
            /\ ret' = [Returned("get_or_create_session", id) EXCEPT !.obj = "stored",
                                                                      !.loaded = TRUE]
       ELSE /\ sm_sessions' = DictSet(sm_sessions, id, Session(id))
            /\ ret' = [Returned("get_or_create_session", id) EXCEPT !.obj = "stored"]
    /\ UNCHANGED sm_files
    /\ SessionFrame

\* SessionManager.save_session(session_id)
SaveSession(id) ==
    /\ IF storage_path /\ id \in DOMAIN sm_sessions
       THEN /\ sm_files' = DictSet(sm_files, id, to_dict(sm_sessions[id]))
            /\ ret' = [Returned("save_session", id) EXCEPT !.ok = TRUE]
       ELSE /\ ret' = Returned("save_session", id)
            /\ UNCHANGED sm_files
    /\ UNCHANGED sm_sessions
    /\ SessionFrame

\* a delete_session that is done once it has found the session in memory
DeleteSessionMemoryOnly(id) ==
    /\ IF id \in DOMAIN sm_sessions
       THEN /\ sm_sessions' = DictDel(sm_sessions, id)
            /\ UNCHANGED sm_files
            /\ ret' = [Returned("delete_session", id) EXCEPT !.ok = TRUE]
       ELSE /\ UNCHANGED sm_sessions
            /\ sm_files' = IF storage_path THEN DictDel(sm_files, id) ELSE sm_files
            /\ ret' = [Returned("delete_session", id) EXCEPT
                          !.ok = storage_path /\ id \in DOMAIN sm_files]
    /\ SessionFrame

\* SessionManager.delete_session(session_id): the entry of _sessions deleted if
\* there is one; then, with a storage path, the file unlinked if it exists and
\* True returned; False in every other case
DeleteSession(id) ==
    /\ sm_sessions' = DictDel(sm_sessions, id)
    /\ IF storage_path /\ id \in DOMAIN sm_files
       THEN /\ sm_files' = DictDel(sm_files, id)
            /\ ret' = [Returned("delete_session", id) EXCEPT !.ok = TRUE]
       ELSE /\ UNCHANGED sm_files
            /\ ret' = Returned("delete_session", id)
    /\ SessionFrame

RECURSIVE Sorted(_)
\* sorted(session_ids)
Sorted(set) ==
    IF set = {} THEN <<>>
    ELSE LET least == CHOOSE x \in set : \A y \in set : x <= y
         IN <<least>> \o Sorted(set \ {least})

\* SessionManager.list_sessions()
ListSessions ==
    /\ ret' = [Returned("list_sessions", 0) EXCEPT
                  !.list = Sorted(DOMAIN sm_sessions \cup
                                  (IF storage_path THEN DOMAIN sm_files ELSE {}))]
    /\ UNCHANGED <<sm_sessions, sm_files>>
    /\ SessionFrame

\* the process starts again: a new SessionManager over the same storage path (the
\* tests do the same with manager._sessions.clear())
NewManager ==
    /\ sm_sessions # <<>>
    /\ sm_sessions' = <<>>
    /\ ret' = Returned("new_manager", 0)
    /\ UNCHANGED sm_files
    /\ SessionFrame

\* session.add_message(role, content) on the session stored under id
AddMessage(id, msg) ==
    /\ id \in DOMAIN sm_sessions
    /\ Len(sm_sessions[id].messages) < MaxMessages
    /\ sm_sessions' = [sm_sessions EXCEPT ![id] = add_message(@, msg)]
    /\ ret' = Returned("add_message", id)
    /\ UNCHANGED sm_files
    /\ SessionFrame

\* session.set_current_shader(code, compile_success=...) on the session under id
SetCurrentShader(id, code, compile_success) ==
    /\ id \in DOMAIN sm_sessions
    /\ Len(sm_sessions[id].shader_history) < MaxShaderCalls
    /\ sm_sessions' = [sm_sessions EXCEPT
                          ![id] = set_current_shader(@, code, compile_success)]
    /\ ret' = [Returned("set_current_shader", id) EXCEPT
                  !.code = code, !.compile_success = compile_success]
    /\ UNCHANGED sm_files
    /\ SessionFrame

\* session.build_context(max_messages=k) on the session under id
BuildContext(id, k) ==
    /\ id \in DOMAIN sm_sessions
    /\ ret' = [Returned("build_context", id) EXCEPT
                  !.k = k, !.context = build_context(sm_sessions[id], k)]
    /\ UNCHANGED <<sm_sessions, sm_files>>
    /\ SessionFrame

\* get_context_messages(max_messages=k) of a SessionState whose
\* conversation_history is the messages of the session under id
GetContextMessages(id, k) ==
    /\ id \in DOMAIN sm_sessions
    /\ ret' = [Returned("get_context_messages", id) EXCEPT
                  !.k = k, !.context = get_context_messages(sm_sessions[id].messages, k)]
    /\ UNCHANGED <<sm_sessions, sm_files>>
    /\ SessionFrame

\* _connection_handler before its first read: nothing received, nothing handled.
\* inbox: the frames the websocket holds, each the number of its arrival;
\* pc: "read" at the `async for`, "handle" inside handle_message, "send" at
\* websocket.send; msg: the frame in hand; response: whether handle_message
\* returned a message; done: the frames whose loop body has finished, in order.
IdleLoop ==
    [pc |-> "read", inbox |-> <<>>, arrived |-> 0, msg |-> 0, response |-> FALSE,
     done |-> <<>>]

register_tool_callback(id, cb) ==
    pending_tool_calls' = DictSet(pending_tool_calls, id, cb)

register_confirm_callback(id, cb) ==
    pending_confirms' = DictSet(pending_confirms, id, cb)

Init ==
    /\ tasks = [t \in Tasks |-> IdleState]
    /\ pending_tool_calls = <<>>
    /\ pending_confirms = <<>>
    /\ connections = <<>>
    /\ closed = {}
    /\ nextExt = 0
    /\ invoked = {}
    /\ reinvoked = {}
    /\ last = NoMsg
    /\ vstate = CodeState(<<>>)
    /\ sm_sessions = <<>>
    /\ sm_files = <<>>
    /\ storage_path = FALSE
    /\ ret = NoCall
    /\ cm_sessions = <<>>
    /\ conn_loop = [c \in Conns |-> IdleLoop]

\* ----------------------------------------------------------- connections

\* _connection_handler, on entry
add_connection(c) ==
    /\ c \notin DOMAIN connections
    /\ c \notin closed
    /\ connections' = DictSet(connections, c, None)
    /\ UNCHANGED <<tasks, pending_tool_calls, pending_confirms, closed, nextExt,
                   invoked, reinvoked, last, libVars, cmVars>>

\* _connection_handler, the finally block: connections.pop(websocket, None).
\* A websocket is registered when its handler starts; a second call for a
\* websocket already removed finds nothing to pop.
remove_connection(c) ==
    /\ c \in DOMAIN connections \cup closed
    /\ connections' = DictDel(connections, c)
    /\ closed' = closed \cup {c}
    /\ UNCHANGED <<tasks, pending_tool_calls, pending_confirms, nextExt,
                   invoked, reinvoked, last, libVars, cmVars>>

\* ------------------------------------------------------------ the runner

SetTask(t, s) == tasks' = [tasks EXCEPT ![t] = s]

EngineFrame == UNCHANGED <<pending_tool_calls, pending_confirms, connections, closed,
                           nextExt, invoked, reinvoked, last, libVars, cmVars>>

\* run() is called for a request of connection c
StartTask(t, c, img, mx) ==
    /\ tasks[t].pc = "idle"
    /\ c \in DOMAIN connections
    /\ SetTask(t, InitialState(c, img, mx))
    /\ EngineFrame

\* graph.ainvoke(current_state): the conditional entry point
GraphEntry(t) ==
    /\ tasks[t].pc = "entry"
    /\ SetTask(t, [tasks[t] EXCEPT !.pc = check_has_image(tasks[t])])
    /\ EngineFrame

AnalyzeImage(t) ==
    /\ tasks[t].pc = "analyze_image"
    /\ SetTask(t, [tasks[t] EXCEPT !.current_stage = "image_analyzed", !.pc = "analyze"])
    /\ EngineFrame

AnalyzeRequirement(t) ==
    /\ tasks[t].pc = "analyze"
    /\ SetTask(t, [tasks[t] EXCEPT !.current_stage = "analyzed", !.pc = "generate"])
    /\ EngineFrame

\* the errors quoted only from the second retry on
retry_errorsFromSecondRetry(s) ==
    IF s.compile_result = "failed" /\ s.retry_count > 1 THEN s.compile_errors ELSE 0

\* generate_shader, "If retrying, include error information": the errors of
\* compile_result go into the prompt when its status is FAILED and retry_count > 0
retry_errors(s) ==
    IF s.compile_result = "failed" /\ s.retry_count > 0 THEN s.compile_errors ELSE 0

\* the code model returns code that passes validate_shader, or code that does not
GenerateShader(t) ==
    /\ tasks[t].pc = "generate"
    /\ \E ok \in BOOLEAN :
         SetTask(t, [tasks[t] EXCEPT !.code_valid = ok, !.current_stage = "generated",
                                     !.prompt_errors = retry_errors(tasks[t]),
                                     !.fix_iterations = 0,
                                     !.pc = "validate"])
    /\ EngineFrame

\* a checklist that passes whatever the code
validate_shaderPassesAll(s) ==
    [s EXCEPT !.validation_passed = TRUE, !.current_stage = "validated"]

validate_shader(s) ==
    [s EXCEPT !.validation_passed = s.code_valid,
              !.current_stage = IF s.code_valid THEN "validated" ELSE "validation_failed"]

ValidateShader(t) ==
    /\ tasks[t].pc = "validate"
    /\ LET s == validate_shader(tasks[t])
       IN SetTask(t, IF check_should_compile(s) = "compile"
                     THEN [s EXCEPT !.fix_iterations = 0, !.pc = "end"]
                     ELSE [s EXCEPT !.pc = "fix"])
    /\ EngineFrame

FixValidationErrors(t) ==
    /\ tasks[t].pc = "fix"
    /\ \E ok \in BOOLEAN :
         SetTask(t, [tasks[t] EXCEPT !.code_valid = ok, !.current_stage = "fixed",
                                     !.fix_iterations =
                                         IF @ > MaxFixIterations THEN @ ELSE @ + 1,
                                     !.pc = "validate"])
    /\ EngineFrame

\* model_manager.generate raises inside analyze_image, analyze_requirement,
\* generate_shader or fix_validation_errors: no node and no line of run() catches,
\* so the exception leaves ainvoke and run() with the state as the last node left it
StageRaises(t) ==
    /\ tasks[t].pc \in {"analyze_image", "analyze", "generate", "fix"}
    /\ SetTask(t, [tasks[t] EXCEPT !.pc = "raised"])
    /\ EngineFrame

\* run(): the graph returned, validation passed and the task is not complete:
\* on_tool_call("compile_shader", ...) sends the request under a fresh id and waits.
RequestCompile(t) ==
    /\ tasks[t].pc = "end"
    /\ tasks[t].inv = 1
    /\ tasks[t].validation_passed /\ ~tasks[t].is_complete
    /\ tasks[t].calls < CallsPerTask
    /\ LET n == tasks[t].calls + 1
           id == TaskCallId(t, n)
       IN /\ register_tool_callback(id, Callback("tool", tasks[t].conn, t, n))
          /\ SetTask(t, [tasks[t] EXCEPT !.pc = "await", !.tool_call_id = id,
                                         !.calls = n])
    /\ UNCHANGED <<pending_confirms, connections, closed, nextExt, invoked, reinvoked,
                   last, libVars, cmVars>>

\* the while loop without its break
LoopOrReturnIgnoresComplete(t) ==
    /\ tasks[t].pc = "end"
    /\ tasks[t].inv = 2 \/ ~(tasks[t].validation_passed /\ ~tasks[t].is_complete)
    /\ SetTask(t, [tasks[t] EXCEPT !.pc = "entry", !.inv = 1])
    /\ EngineFrame

\* run(): "if current_state.is_complete: break", else the while loop starts over
LoopOrReturn(t) ==
    /\ tasks[t].pc = "end"
    /\ tasks[t].inv = 2 \/ ~(tasks[t].validation_passed /\ ~tasks[t].is_complete)
    /\ SetTask(t, IF tasks[t].is_complete
                  THEN [tasks[t] EXCEPT !.pc = "returned"]
                  ELSE [tasks[t] EXCEPT !.pc = "entry", !.inv = 1])
    /\ EngineFrame

\* graph.ainvoke(current_state, {"checkpoint_id": "compile_check"})
CompileCheck(t) ==
    /\ tasks[t].pc = "compile_check"
    /\ LET s == handle_compile_result(tasks[t])
       IN SetTask(t, [s EXCEPT !.pc = check_should_retry(s)])
    /\ EngineFrame

PrepareRetry(t) ==
    /\ tasks[t].pc = "retry"
    /\ SetTask(t, [prepare_retry(tasks[t]) EXCEPT !.pc = "generate"])
    /\ EngineFrame

FinalizeSuccess(t) ==
    /\ tasks[t].pc = "success"
    /\ SetTask(t, [finalize_success(tasks[t]) EXCEPT !.pc = "end"])
    /\ EngineFrame

FinalizeFailure(t) ==
    /\ tasks[t].pc = "fail"
    /\ SetTask(t, [finalize_failure(tasks[t]) EXCEPT !.pc = "end"])
    /\ EngineFrame

\* ------------------------------------------------------- message handler

\* the result handed to whichever task is waiting, not to the callback's own
ResumeAnyWaiter(cb, success) ==
    IF \E t \in Tasks : tasks[t].pc = "await"
    THEN LET t == CHOOSE u \in Tasks : tasks[u].pc = "await"
         IN tasks' = [tasks EXCEPT ![t] =
                        [@ EXCEPT !.compile_result = IF success THEN "success" ELSE "failed",
                                  !.compile_errors = IF success THEN 0 ELSE tasks[t].calls,
                                  !.failures = IF success THEN @ ELSE @ + 1,
                                  !.tool_call_id = 0,
                                  !.inv = 2,
                                  !.pc = "compile_check"]]
    ELSE UNCHANGED tasks

\* the second ainvoke without its checkpoint: the graph starts at its entry point
ResumeRestartsGraph(cb, success) ==
    IF /\ cb.owner \in Tasks
       /\ tasks[cb.owner].pc = "await"
       /\ tasks[cb.owner].calls = cb.n
    THEN tasks' = [tasks EXCEPT ![cb.owner] =
                     [@ EXCEPT !.compile_result = IF success THEN "success" ELSE "failed",
                               !.compile_errors = IF success THEN 0 ELSE cb.n,
                               !.failures = IF success THEN @ ELSE @ + 1,
                               !.tool_call_id = 0,
                               !.inv = 2,
                               !.pc = "entry"]]
    ELSE UNCHANGED tasks

\* The callback of a task's tool call: compile_shader returns the CompileResult,
\* run() stores it and resumes the graph at compile_check.
Resume(cb, success) ==
    IF /\ cb.owner \in Tasks
       /\ tasks[cb.owner].pc = "await"
       /\ tasks[cb.owner].calls = cb.n
    THEN tasks' = [tasks EXCEPT ![cb.owner] =
                     [@ EXCEPT !.compile_result = IF success THEN "success" ELSE "failed",
                               !.compile_errors = IF success THEN 0 ELSE cb.n,
                               !.failures = IF success THEN @ ELSE @ + 1,
                               !.tool_call_id = 0,
                               !.inv = 2,
                               !.pc = "compile_check"]]
    ELSE UNCHANGED tasks

\* a confirmation is requested on connection c under an id the caller chose
RegisterConfirmCallback(c, id) ==
    /\ c \in DOMAIN connections
    /\ nextExt < MaxExt
    /\ nextExt' = nextExt + 1
    /\ register_confirm_callback(id, Callback("confirm", c, 0, nextExt + 1))
    /\ UNCHANGED <<tasks, pending_tool_calls, connections, closed, invoked, reinvoked,
                   last, libVars, cmVars>>

\* the request ids a TOOL_RESPONSE may carry: one the server issued at some time,
\* answered or not, or one it never issued
ReplyIds ==
    {TaskCallId(t, n) : t \in Tasks, n \in 1..CallsPerTask} \cap
    ({TaskCallId(t, tasks[t].calls) : t \in {u \in Tasks : tasks[u].calls > 0}}
       \cup {TaskCallId(t, tasks[t].calls - 1) : t \in {u \in Tasks : tasks[u].calls > 1}}
       \cup {StrayId})

\* _handle_tool_response: TOOL_RESPONSE read from connection c; its payload either
\* fails validate_payload (valid = FALSE) or carries a request id and a result
HandleToolResponse(c, id, success, valid) ==
    /\ c \in DOMAIN connections
    /\ IF ~valid
       THEN /\ HandledMsg(c, "TOOL_RESPONSE", 0, NoCallback, "INVALID_TOOL_RESPONSE")
            /\ UNCHANGED <<tasks, pending_tool_calls, invoked, reinvoked>>
       ELSE LET callback == DictGet(pending_tool_calls, id)
            IN /\ pending_tool_calls' = DictDel(pending_tool_calls, id)
               /\ IF callback # NoCallback
                  THEN Awaited(callback) /\ Resume(callback, success)
                  ELSE UNCHANGED <<tasks, invoked, reinvoked>>
               /\ HandledMsg(c, "TOOL_RESPONSE", id, callback, None)
    /\ UNCHANGED <<pending_confirms, connections, closed, nextExt, libVars, cmVars>>

\* one dict for both kinds of pending request
HandleConfirmSharedDict(c, id, valid) ==
    /\ c \in DOMAIN connections
    /\ IF ~valid
       THEN /\ HandledMsg(c, "CONFIRM_RESPONSE", 0, NoCallback, "INVALID_CONFIRM")
            /\ UNCHANGED <<pending_confirms, pending_tool_calls, invoked, reinvoked>>
       ELSE LET callback == IF id \in DOMAIN pending_confirms
                            THEN pending_confirms[id]
                            ELSE DictGet(pending_tool_calls, id)
            IN /\ pending_confirms' = DictDel(pending_confirms, id)
               /\ pending_tool_calls' = DictDel(pending_tool_calls, id)
               /\ IF callback # NoCallback
                  THEN Awaited(callback)
                  ELSE UNCHANGED <<invoked, reinvoked>>
               /\ HandledMsg(c, "CONFIRM_RESPONSE", id, callback, None)
    /\ UNCHANGED <<tasks, connections, closed, nextExt, libVars, cmVars>>

\* _handle_confirm: CONFIRM_RESPONSE with confirm id `id` read from connection c
HandleConfirm(c, id, valid) ==
    /\ c \in DOMAIN connections
    /\ IF ~valid
       THEN /\ HandledMsg(c, "CONFIRM_RESPONSE", 0, NoCallback, "INVALID_CONFIRM")
            /\ UNCHANGED <<pending_confirms, invoked, reinvoked>>
       ELSE LET callback == DictGet(pending_confirms, id)
            IN /\ pending_confirms' = DictDel(pending_confirms, id)
               /\ IF callback # NoCallback
                  THEN Awaited(callback)
                  ELSE UNCHANGED <<invoked, reinvoked>>
               /\ HandledMsg(c, "CONFIRM_RESPONSE", id, callback, None)
    /\ UNCHANGED <<tasks, pending_tool_calls, connections, closed, nextExt, libVars, cmVars>>

\* _handle_tool_response when the callback it awaits raises: `except Exception`
\* logs, the handler returns None.  The callback raised before it handed the
\* result to run(): the task keeps waiting.
HandleToolResponseRaises(c, id) ==
    /\ c \in DOMAIN connections
    /\ id \in DOMAIN pending_tool_calls
    /\ LET callback == DictGet(pending_tool_calls, id)
       IN /\ pending_tool_calls' = DictDel(pending_tool_calls, id)
          /\ Awaited(callback)
          /\ last' = [NoMsg EXCEPT !.conn = c, !.type = "TOOL_RESPONSE", !.id = id,
                                   !.callback = callback, !.raised = TRUE]
    /\ UNCHANGED <<tasks, pending_confirms, connections, closed, nextExt, libVars,
                   cmVars>>

\* an exception handler that puts the entry back for a later reply
HandleConfirmRaisesKeepsEntry(c, id) ==
    /\ c \in DOMAIN connections
    /\ id \in DOMAIN pending_confirms
    /\ LET callback == DictGet(pending_confirms, id)
       IN /\ Awaited(callback)
          /\ last' = [NoMsg EXCEPT !.conn = c, !.type = "CONFIRM_RESPONSE", !.id = id,
                                   !.callback = callback, !.raised = TRUE]
    /\ UNCHANGED <<tasks, pending_tool_calls, pending_confirms, connections, closed,
                   nextExt, libVars, cmVars>>

\* _handle_confirm when the callback it awaits raises
HandleConfirmRaises(c, id) ==
    /\ c \in DOMAIN connections
    /\ id \in DOMAIN pending_confirms
    /\ LET callback == DictGet(pending_confirms, id)
       IN /\ pending_confirms' = DictDel(pending_confirms, id)
          /\ Awaited(callback)
          /\ last' = [NoMsg EXCEPT !.conn = c, !.type = "CONFIRM_RESPONSE", !.id = id,
                                   !.callback = callback, !.raised = TRUE]
    /\ UNCHANGED <<tasks, pending_tool_calls, connections, closed, nextExt, libVars,
                   cmVars>>

\* _handle_cancel_task: CANCEL_TASK read from connection c
HandleCancelTask(c) ==
    /\ c \in DOMAIN connections
    /\ HandledMsg(c, "CANCEL_TASK", 0, NoCallback, None)
    /\ UNCHANGED <<tasks, pending_tool_calls, pending_confirms, connections, closed,
                   nextExt, invoked, reinvoked, libVars, cmVars>>

\* ------------------------------------------- sessions of the connections

\* SessionState(): session_id is a fresh uuid4, the history is empty
uuid4 == ToString(Cardinality(DOMAIN cm_sessions) + 1)

SessionState(session_id) ==
    [session_id |-> session_id, conversation_history |-> <<>>]

\* SessionState.add_message
state_add_message(session, role, content) ==
    [session EXCEPT !.conversation_history =
                        Append(@, [role |-> role, content |-> content])]

\* ConnectionManager.get_session: the session of the websocket, or None.  A
\* connection holds its SessionState by reference: here, by its session_id.
get_session(c) == connections[c]

\* a set_session that leaves the sessions map alone
set_sessionConnectionOnly(c, session) ==
    /\ connections' = DictSet(connections, c, session.session_id)
    /\ UNCHANGED cm_sessions

set_session(c, session) ==
    /\ connections' = DictSet(connections, c, session.session_id)
    /\ cm_sessions' = DictSet(cm_sessions, session.session_id, session)

\* the session ids a SESSION_INIT may name: one the server gave out at some time,
\* one it never gave out ("x"), or none
RequestedIds == {ToString(n) : n \in 1..MaxSessions} \cup {"x", None}

\* a SESSION_INIT handler that ignores the session id of the payload
HandleSessionInitAlwaysNew(c, sid, valid) ==
    /\ c \in DOMAIN connections
    /\ IF ~valid
       THEN /\ last' = [NoMsg EXCEPT !.conn = c, !.type = "SESSION_INIT",
                                     !.response = "INVALID_SESSION_INIT"]
            /\ UNCHANGED <<connections, cm_sessions>>
       ELSE /\ Cardinality(DOMAIN cm_sessions) < MaxSessions
            /\ set_session(c, SessionState(uuid4))
            /\ last' = [NoMsg EXCEPT !.conn = c, !.type = "SESSION_INIT",
                                     !.response = "SESSION_READY",
                                     !.session_id = connections'[c], !.is_new = TRUE]
    /\ UNCHANGED <<tasks, pending_tool_calls, pending_confirms, closed, nextExt,
                   invoked, reinvoked, libVars, conn_loop>>

\* _handle_session_init: SESSION_INIT read from connection c; its payload fails
\* model_validate (valid = FALSE) or names session id sid (None for no id)
HandleSessionInit(c, sid, valid) ==
    /\ c \in DOMAIN connections
    /\ IF ~valid
       THEN /\ last' = [NoMsg EXCEPT !.conn = c, !.type = "SESSION_INIT",
                                     !.response = "INVALID_SESSION_INIT"]
            /\ UNCHANGED <<connections, cm_sessions>>
       ELSE IF sid # None /\ sid \in DOMAIN cm_sessions
       THEN /\ set_session(c, cm_sessions[sid])
            /\ last' = [NoMsg EXCEPT !.conn = c, !.type = "SESSION_INIT",
                                     !.response = "SESSION_READY",
                                     !.session_id = connections'[c], !.is_new = FALSE]
       ELSE /\ Cardinality(DOMAIN cm_sessions) < MaxSessions
            /\ set_session(c, SessionState(uuid4))
            /\ last' = [NoMsg EXCEPT !.conn = c, !.type = "SESSION_INIT",
                                     !.response = "SESSION_READY",
                                     !.session_id = connections'[c], !.is_new = TRUE]
    /\ UNCHANGED <<tasks, pending_tool_calls, pending_confirms, closed, nextExt,
                   invoked, reinvoked, libVars, conn_loop>>

\* a USER_MESSAGE handler that opens a session for a connection without one
HandleUserMessageAutoSession(c, valid) ==
    /\ c \in DOMAIN connections
    /\ IF get_session(c) = None
       THEN /\ Cardinality(DOMAIN cm_sessions) < MaxSessions
            /\ set_session(c, state_add_message(SessionState(uuid4), "user", "a"))
            /\ last' = [NoMsg EXCEPT !.conn = c, !.type = "USER_MESSAGE",
                                     !.response = "STREAM_TEXT"]
       ELSE /\ last' = [NoMsg EXCEPT !.conn = c, !.type = "USER_MESSAGE",
                                     !.response = "INVALID_USER_MESSAGE"]
            /\ UNCHANGED <<connections, cm_sessions>>
    /\ UNCHANGED <<tasks, pending_tool_calls, pending_confirms, closed,
                   nextExt, invoked, reinvoked, libVars, conn_loop>>

\* _handle_user_message: USER_MESSAGE read from connection c; the session is
\* looked up before the payload is validated
HandleUserMessage(c, valid) ==
    /\ c \in DOMAIN connections
    /\ LET session == get_session(c)
       IN IF session = None
          THEN /\ last' = [NoMsg EXCEPT !.conn = c, !.type = "USER_MESSAGE",
                                        !.response = "NO_SESSION"]
               /\ UNCHANGED cm_sessions
          ELSE IF ~valid
          THEN /\ last' = [NoMsg EXCEPT !.conn = c, !.type = "USER_MESSAGE",
                                        !.response = "INVALID_USER_MESSAGE"]
               /\ UNCHANGED cm_sessions
          ELSE /\ Len(cm_sessions[session].conversation_history) < MaxHistory
               /\ cm_sessions' = [cm_sessions EXCEPT ![session] =
                                     state_add_message(@, "user", "a")]
               /\ last' = [NoMsg EXCEPT !.conn = c, !.type = "USER_MESSAGE",
                                        !.response = "STREAM_TEXT"]
    /\ UNCHANGED <<tasks, pending_tool_calls, pending_confirms, connections, closed,
                   nextExt, invoked, reinvoked, libVars, conn_loop>>

\* the message types _setup_handlers registers a handler for
RegisteredTypes == {"SESSION_INIT", "USER_MESSAGE", "CANCEL_TASK"}

\* a handle_message without its try/except: the exception ends the `async for`
\* of _connection_handler and the finally block removes the connection
HandlerRaisesPropagates(c, type) ==
    /\ c \in DOMAIN connections
    /\ last' = [NoMsg EXCEPT !.conn = c, !.type = type]
    /\ connections' = DictDel(connections, c)
    /\ closed' = closed \cup {c}
    /\ UNCHANGED <<tasks, pending_tool_calls, pending_confirms,
                   nextExt, invoked, reinvoked, libVars, cmVars>>

\* handle_message, "Route to registered handler": the handler raises before it
\* changed anything; `except Exception` returns ERROR HANDLER_ERROR
HandlerRaises(c, type) ==
    /\ c \in DOMAIN connections
    /\ last' = [NoMsg EXCEPT !.conn = c, !.type = type, !.response = "HANDLER_ERROR"]
    /\ UNCHANGED <<tasks, pending_tool_calls, pending_confirms, connections, closed,
                   nextExt, invoked, reinvoked, libVars, cmVars>>

\* ------------------------------------------------ the connection loop

SetLoop(c, l) ==
    /\ conn_loop' = [conn_loop EXCEPT ![c] = l]
    /\ UNCHANGED <<tasks, pending_tool_calls, pending_confirms, connections, closed,
                   nextExt, invoked, reinvoked, last, libVars, cm_sessions>>

\* the client sends a frame: the websocket holds it until the loop reads it
FrameArrives(c) ==
    /\ c \in DOMAIN connections
    /\ conn_loop[c].arrived < MaxFrames
    /\ SetLoop(c, [conn_loop[c] EXCEPT !.arrived = @ + 1,
                                       !.inbox = Append(@, conn_loop[c].arrived + 1)])

\* a loop that hands each frame to a task of its own and reads on
ReadFrameWithoutWaiting(c) ==
    /\ c \in DOMAIN connections
    /\ conn_loop[c].inbox # <<>>
    /\ SetLoop(c, [conn_loop[c] EXCEPT !.msg = Head(conn_loop[c].inbox),
                                       !.inbox = Tail(@), !.pc = "handle"])

\* `async for raw_message in websocket`: the loop is at its head and takes the
\* oldest frame
ReadFrame(c) ==
    /\ c \in DOMAIN connections
    /\ conn_loop[c].pc = "read"
    /\ conn_loop[c].inbox # <<>>
    /\ SetLoop(c, [conn_loop[c] EXCEPT !.msg = Head(conn_loop[c].inbox),
                                       !.inbox = Tail(@), !.pc = "handle"])

\* `response = await handle_message(raw_message, context)` returns: a message to
\* send, or None and the loop body is over
HandleMessageReturns(c, response) ==
    /\ c \in DOMAIN connections
    /\ conn_loop[c].pc = "handle"
    /\ SetLoop(c, IF response
                  THEN [conn_loop[c] EXCEPT !.response = TRUE, !.pc = "send"]
                  ELSE [conn_loop[c] EXCEPT !.response = FALSE, !.pc = "read",
                                            !.done = Append(@, conn_loop[c].msg)])

\* `await websocket.send(serialize_message(response))` returns
SendResponse(c) ==
    /\ c \in DOMAIN connections
    /\ conn_loop[c].pc = "send"
    /\ SetLoop(c, [conn_loop[c] EXCEPT !.pc = "read",
                                       !.done = Append(@, conn_loop[c].msg)])

\* What a frame that is no message of the protocol can be: text that is not JSON;
\* JSON that is a number, true, false or null; a JSON object without "type"; a
\* JSON object that BaseMessage rejects; a BaseMessage whose type is no MessageType
RawShapes == {"bad_json", "json_scalar", "no_type", "bad_structure", "unknown_type"}

\* parse_message: json.loads, then `"type" not in data`, then model_validate.
\* json.loads and model_validate failures and a missing "type" become
\* MessageParseError; `"type" not in data` on a number, a boolean or None is a
\* TypeError, which nothing in parse_message catches.
parse_message(shape) ==
    CASE shape = "bad_json" -> "MessageParseError"
      [] shape = "json_scalar" -> "TypeError"
      [] shape = "no_type" -> "MessageParseError"
      [] shape = "bad_structure" -> "MessageParseError"
      [] OTHER -> "BaseMessage"

\* _connection_handler reads a frame from connection c and calls handle_message.
\* handle_message turns MessageParseError into PARSE_ERROR and an unknown type
\* into UNKNOWN_MESSAGE_TYPE; any other exception leaves handle_message, ends the
\* `async for` in `except Exception`, and the finally block removes the connection.
HandleRawMessage(c, shape) ==
    /\ c \in DOMAIN connections
    /\ LET parsed == parse_message(shape)
       IN IF parsed = "MessageParseError"
          THEN /\ HandledMsg(c, shape, 0, NoCallback, "PARSE_ERROR")
               /\ UNCHANGED <<connections, closed>>
          ELSE IF parsed = "TypeError"
          THEN /\ HandledMsg(c, shape, 0, NoCallback, None)
               /\ connections' = DictDel(connections, c)
               /\ closed' = closed \cup {c}
          ELSE /\ HandledMsg(c, shape, 0, NoCallback, "UNKNOWN_MESSAGE_TYPE")
               /\ UNCHANGED <<connections, closed>>
    /\ UNCHANGED <<tasks, pending_tool_calls, pending_confirms, nextExt, invoked,
                   reinvoked, libVars, cmVars>>

\* ------------------------------------------------------- specifications

EngineStep(t) ==
    \/ GraphEntry(t)
    \/ AnalyzeImage(t)
    \/ AnalyzeRequirement(t)
    \/ GenerateShader(t)
    \/ ValidateShader(t)
    \/ FixValidationErrors(t)
    \/ StageRaises(t)
    \/ RequestCompile(t)
    \/ LoopOrReturn(t)
    \/ CompileCheck(t)
    \/ PrepareRetry(t)
    \/ FinalizeSuccess(t)
    \/ FinalizeFailure(t)

\* One task at a time through the whole workflow, for every retry ceiling, on a
\* server whose connections come and go.
Next ==
    \/ \E c \in Conns : add_connection(c)
    \/ \E c \in Conns : remove_connection(c)
    \/ \E c \in Conns, img \in BOOLEAN, mx \in 0..MaxCeiling : StartTask(1, c, img, mx)
    \/ EngineStep(1)
    \/ \E c \in Conns, id \in ReplyIds, success \in BOOLEAN :
         HandleToolResponse(c, id, success, TRUE)
    \/ \E c \in Conns : HandleToolResponse(c, StrayId, FALSE, FALSE)
    \/ \E c \in Conns : HandleCancelTask(c)

Spec == Init /\ [][Next]_vars

\* The event loop runs every coroutine that is ready; nothing makes Unity reply.
FairSpec == Spec /\ WF_vars(EngineStep(1))

\* The workflow of one task from start to return on one connection that stays
\* open, for every retry ceiling, with and without a reference image, under every
\* sequence of compile replies.
WorkflowNext ==
    \/ add_connection(1)
    \/ \E img \in BOOLEAN, mx \in 0..MaxCeiling : StartTask(1, 1, img, mx)
    \/ EngineStep(1)
    \/ \E id \in ReplyIds, success \in BOOLEAN : HandleToolResponse(1, id, success, TRUE)
    \/ HandleToolResponse(1, StrayId, FALSE, FALSE)

SpecWorkflow == Init /\ [][WorkflowNext]_vars

\* run() with a tool-call handler that always returns and a model that always
\* answers: no stage raises, every tool call is answered on the task's connection,
\* and the validate/fix loop reaches code that passes.
RunStep(t) ==
    \/ GraphEntry(t)
    \/ AnalyzeImage(t)
    \/ AnalyzeRequirement(t)
    \/ GenerateShader(t)
    \/ ValidateShader(t)
    \/ FixValidationErrors(t)
    \/ RequestCompile(t)
    \/ LoopOrReturn(t)
    \/ CompileCheck(t)
    \/ PrepareRetry(t)
    \/ FinalizeSuccess(t)
    \/ FinalizeFailure(t)

\* Unity answers the tool call the task waits for
Deliver(t) ==
    /\ tasks[t].pc = "await"
    /\ \E success \in BOOLEAN :
         HandleToolResponse(tasks[t].conn, tasks[t].tool_call_id, success, TRUE)

\* the fix stage returns code that passes validate_shader
FixConverges(t) == FixValidationErrors(t) /\ tasks'[t].code_valid

RunNext ==
    \/ add_connection(1)
    \/ \E img \in BOOLEAN, mx \in 0..MaxCeiling : StartTask(1, 1, img, mx)
    \/ RunStep(1)
    \/ \E id \in ReplyIds, success \in BOOLEAN : HandleToolResponse(1, id, success, TRUE)
    \/ HandleToolResponse(1, StrayId, FALSE, FALSE)

SpecRun ==
    /\ Init /\ [][RunNext]_vars
    /\ WF_vars(RunStep(1))
    /\ WF_vars(Deliver(1))
    /\ SF_vars(FixConverges(1))

\* Two tasks and the confirmations of one connection, under every interleaving of
\* registrations and replies.  The tasks have no reference image and no retry
\* budget: each goes once through analyze .. compile_check and ends.  The fix
\* stage is left to Spec: here a task whose code fails validation waits at fix.
CorrelatorTasks == {1, 2}

CorrelatorStep(t) ==
    \/ GraphEntry(t)
    \/ AnalyzeRequirement(t)
    \/ GenerateShader(t)
    \/ ValidateShader(t)
    \/ RequestCompile(t)
    \/ LoopOrReturn(t)
    \/ CompileCheck(t)
    \/ FinalizeSuccess(t)
    \/ FinalizeFailure(t)

CorrelatorNext ==
    \/ add_connection(1)
    \/ \E t \in CorrelatorTasks : StartTask(t, 1, FALSE, 0)
    \/ \E t \in CorrelatorTasks : CorrelatorStep(t)
    \/ \E id \in Ids : RegisterConfirmCallback(1, id)
    \/ \E id \in ReplyIds, success \in BOOLEAN : HandleToolResponse(1, id, success, TRUE)
    \/ HandleToolResponse(1, StrayId, FALSE, FALSE)
    \/ \E id \in Ids : HandleConfirm(1, id, TRUE)
    \/ HandleConfirm(1, 1, FALSE)

SpecCorrelator == Init /\ [][CorrelatorNext]_vars

\* One task and the confirmations of one connection, with callbacks that return
\* and callbacks that raise.
CallbackRaisesNext ==
    \/ add_connection(1)
    \/ StartTask(1, 1, FALSE, 0)
    \/ CorrelatorStep(1)
    \/ \E id \in Ids : RegisterConfirmCallback(1, id)
    \/ \E id \in ReplyIds, success \in BOOLEAN : HandleToolResponse(1, id, success, TRUE)
    \/ \E id \in Ids : HandleConfirm(1, id, TRUE)
    \/ \E id \in ReplyIds : HandleToolResponseRaises(1, id)
    \/ \E id \in Ids : HandleConfirmRaises(1, id)

SpecCallbackRaises == Init /\ [][CallbackRaisesNext]_vars

\* The connection handlers of the server alone: connections open and close, frames
\* of every shape arrive, confirmations are requested and answered.
ServerNext ==
    \/ \E c \in Conns : add_connection(c)
    \/ \E c \in Conns : remove_connection(c)
    \/ \E c \in Conns, shape \in RawShapes : HandleRawMessage(c, shape)
    \/ \E c \in Conns, id \in Ids : RegisterConfirmCallback(c, id)
    \/ \E c \in Conns, id \in Ids : HandleConfirm(c, id, TRUE)
    \/ \E c \in Conns : HandleConfirm(c, 1, FALSE)
    \/ \E c \in Conns : HandleCancelTask(c)

SpecServer == Init /\ [][ServerNext]_vars

\* The ConnectionManager and the handlers _setup_handlers registers: connections
\* open and close, sessions are started and resumed, user messages arrive, and a
\* handler may raise.
ManagerConns == {1, 2}

ConnectionManagerNext ==
    \/ \E c \in ManagerConns : add_connection(c)
    \/ \E c \in ManagerConns : remove_connection(c)
    \/ \E c \in ManagerConns, sid \in RequestedIds, valid \in BOOLEAN :
         HandleSessionInit(c, sid, valid)
    \/ \E c \in ManagerConns, valid \in BOOLEAN : HandleUserMessage(c, valid)
    \/ \E c \in ManagerConns, type \in RegisteredTypes : HandlerRaises(c, type)

SpecConnectionManager == Init /\ [][ConnectionManagerNext]_vars

\* The read loops of the open connections, frames arriving at any time.
ConnectionLoopNext ==
    \/ \E c \in Conns : add_connection(c)
    \/ \E c \in Conns : FrameArrives(c)
    \/ \E c \in Conns : ReadFrame(c)
    \/ \E c \in Conns, response \in BOOLEAN : HandleMessageReturns(c, response)
    \/ \E c \in Conns : SendResponse(c)

SpecConnectionLoop == Init /\ [][ConnectionLoopNext]_vars

\* validate_shader applied, once and again, to every code of Codes
InitValidate ==
    /\ Init!1 /\ Init!2 /\ Init!3 /\ Init!4 /\ Init!5 /\ Init!6 /\ Init!7 /\ Init!8
    /\ Init!9
    /\ \E code \in Codes : vstate = CodeState(code)
    /\ sm_sessions = <<>>
    /\ sm_files = <<>>
    /\ storage_path = FALSE
    /\ ret = NoCall
    /\ Init!15 /\ Init!16

ValidateNext == ValidateCode

SpecValidate == InitValidate /\ [][ValidateNext]_vars

\* One Session from its construction on, every sequence of set_current_shader calls.
SessionShaderNext ==
    \/ CreateSession(1)
    \/ \E code \in ShaderCodes, ok \in BOOLEAN : SetCurrentShader(1, code, ok)

SpecSessionShader == Init /\ [][SessionShaderNext]_vars

\* One Session from its construction on: messages are added and the context is
\* built for every limit.
SessionContextNext ==
    \/ CreateSession(1)
    \/ \E msg \in Messages : AddMessage(1, msg)
    \/ \E k \in 0..(MaxMessages + 1) : BuildContext(1, k)
    \/ \E k \in 0..(MaxMessages + 1) : GetContextMessages(1, k)

SpecSessionContext == Init /\ [][SessionContextNext]_vars

\* A SessionManager with or without a storage path, two session ids, every order
\* of its calls; session 1 receives messages and shaders.
InitSessionManager ==
    /\ Init!1 /\ Init!2 /\ Init!3 /\ Init!4 /\ Init!5 /\ Init!6 /\ Init!7 /\ Init!8
    /\ Init!9 /\ Init!10 /\ Init!11 /\ Init!12
    /\ storage_path \in BOOLEAN
    /\ ret = NoCall
    /\ Init!15 /\ Init!16

SessionManagerNext ==
    \/ \E id \in SessionIds : CreateSession(id)
    \/ \E id \in SessionIds : GetSession(id)
    \/ \E id \in SessionIds : GetOrCreateSession(id)
    \/ \E id \in SessionIds : SaveSession(id)
    \/ \E id \in SessionIds : DeleteSession(id)
    \/ ListSessions
    \/ NewManager
    \/ AddMessage(1, [role |-> "user", content |-> "a"])
    \/ SetCurrentShader(1, "A", TRUE)

SpecSessionManager == InitSessionManager /\ [][SessionManagerNext]_vars

\* ----------------------------------------------------------------- claims

Suspended(t) == tasks[t].pc = "await"

PendingOf(kind) == IF kind = "tool" THEN pending_tool_calls ELSE pending_confirms

KindOf(type) == IF type = "TOOL_RESPONSE" THEN "tool" ELSE "confirm"

\* a well-formed TOOL_RESPONSE or CONFIRM_RESPONSE is handled in this step
ReplyStep ==
    /\ last' # last
    /\ last'.type \in {"TOOL_RESPONSE", "CONFIRM_RESPONSE"}
    /\ last'.id # 0

\* C1: in every reachable state of every task, retry_count <= max_retries,
\* for every retry ceiling max_retries >= 0.
C1_RetryCountWithinCeiling ==
    \A t \in Tasks : tasks[t].retry_count <= tasks[t].max_retries

\* C2: a registered continuation is awaited at most once: the reply that awaits it
\* has removed its entry, and no later reply with the same id awaits it again.
C2_ResolvedAtMostOnce ==
    /\ reinvoked = {}
    /\ \A cb \in invoked :
          \A id \in DOMAIN PendingOf(cb.kind) : PendingOf(cb.kind)[id] # cb

\* a continuation was awaited, and a later reply with its id found no entry
C2_Witness ==
    /\ last.type = "TOOL_RESPONSE" /\ last.id # 0 /\ last.callback = NoCallback
    /\ \E cb \in invoked :
          cb.kind = "tool" /\ cb.owner \in Tasks /\ TaskCallId(cb.owner, cb.n) = last.id

\* C3: a task with retry ceiling N loops back to generate after each of its first N
\* failed compile replies (retry counter 1..N) and reaches fail only on failure N+1.
C3_FailOnFailureCeilingPlusOne ==
    \A t \in Tasks :
        /\ tasks[t].pc = "retry" =>
              /\ tasks[t].failures <= tasks[t].max_retries
              /\ tasks[t].retry_count = tasks[t].failures
        /\ tasks[t].pc = "fail" => tasks[t].failures = tasks[t].max_retries + 1

\* C4: a task that check_should_retry sends to fail has retry_count = max_retries,
\* for every max_retries >= 0.
C4_FailAtCeiling ==
    \A t \in Tasks : tasks[t].pc = "fail" => tasks[t].retry_count = tasks[t].max_retries

\* C5: registering a callback under an id that has a pending entry leaves that entry
\* and its continuation in place: no pending continuation is ever replaced.
C5_PendingEntryNeverReplaced ==
    [][/\ \A id \in DOMAIN pending_confirms \cap DOMAIN pending_confirms' :
             pending_confirms'[id] = pending_confirms[id]
       /\ \A id \in DOMAIN pending_tool_calls \cap DOMAIN pending_tool_calls' :
             pending_tool_calls'[id] = pending_tool_calls[id]]_vars

\* C6: a well-formed reply whose id has no pending entry awaits no continuation,
\* leaves both pending maps and every task as they were, and returns no message.
C6_UnknownReplyDropped ==
    [][(ReplyStep /\ last'.id \notin DOMAIN PendingOf(KindOf(last'.type))) =>
         /\ UNCHANGED <<tasks, pending_tool_calls, pending_confirms, invoked, reinvoked>>
         /\ last'.callback = NoCallback
         /\ last'.response = None]_vars

\* a reply with an id that was never registered, or is resolved already, was
\* handled while a task was suspended and a confirmation was pending
C6_Witness ==
    /\ last.type \in {"TOOL_RESPONSE", "CONFIRM_RESPONSE"} /\ last.id # 0
    /\ last.callback = NoCallback
    /\ \E t \in Tasks : Suspended(t)
    /\ DOMAIN pending_confirms # {}

\* C7: a reply carrying id X awaits only the continuation registered under X in
\* the map of its kind, and resumes only the task that waits for X.
C7_ReplyResumesOnlyItsContinuation ==
    [][/\ \A cb \in invoked' \ invoked :
             /\ ReplyStep
             /\ cb = last'.callback
             /\ cb.kind = KindOf(last'.type)
             /\ DictGet(PendingOf(cb.kind), last'.id) = cb
       /\ \A t \in Tasks :
             (Suspended(t) /\ tasks'[t] # tasks[t]) =>
                 /\ ReplyStep
                 /\ last'.type = "TOOL_RESPONSE"
                 /\ last'.id = tasks[t].tool_call_id
       /\ \A t \in Tasks :
             (~Suspended(t) /\ ReplyStep) => tasks'[t] = tasks[t]]_vars

\* a reply resumed one task while the other task stayed suspended on its own id
C7_Witness ==
    /\ last.type = "TOOL_RESPONSE" /\ last.callback # NoCallback
    /\ \E t, u \in Tasks :
          /\ tasks[t].calls > 0 /\ TaskCallId(t, tasks[t].calls) = last.id
          /\ ~Suspended(t)
          /\ Suspended(u)
          /\ tasks[u].tool_call_id \in DOMAIN pending_tool_calls

\* C8: CANCEL_TASK on a connection removes at once the pending entry of every task
\* of that connection that is suspended, and makes the task terminal with a
\* cancellation reason.
C8_CancelReleasesSuspendedTask ==
    [][\A c \in Conns :
          (last' # last /\ last'.type = "CANCEL_TASK" /\ last'.conn = c) =>
             \A t \in Tasks :
                 (Suspended(t) /\ tasks[t].conn = c) =>
                     /\ tasks[t].tool_call_id \notin DOMAIN pending_tool_calls'
                     /\ tasks'[t].is_complete
                     /\ tasks'[t].error = "cancelled"]_vars

\* C9: no pending tool-call or confirm entry belongs to a connection that has been
\* removed.
C9_NoEntryOfClosedConnection ==
    /\ \A id \in DOMAIN pending_tool_calls : pending_tool_calls[id].conn \notin closed
    /\ \A id \in DOMAIN pending_confirms : pending_confirms[id].conn \notin closed

\* C10: every task suspended on a tool call is eventually resumed, reply or not.
C10_SuspendedEventuallyResumed ==
    \A t \in Tasks : Suspended(t) ~> ~Suspended(t)

\* the task takes a step of its own in this transition
Moves(t) == tasks'[t] # tasks[t]

C12_ToolCallOnlyAfterPassedValidation ==
    [][\A t \in Tasks :
          /\ tasks'[t].calls # tasks[t].calls =>
                /\ tasks[t].current_stage = "validated"
                /\ tasks[t].validation_passed /\ tasks[t].code_valid
                /\ Suspended(t)'
          /\ (tasks[t].current_stage = "validation_failed" /\ Moves(t)) =>
                tasks'[t].current_stage = "fixed" \/ tasks'[t].pc = "raised"
          /\ (tasks[t].current_stage = "fixed" /\ Moves(t)) =>
                tasks'[t].current_stage \in {"validated", "validation_failed"}]_vars

\* a task is suspended on a tool call for code that passed validation
C12_Witness ==
    \E t \in Tasks :
        /\ Suspended(t) /\ tasks[t].tool_call_id \in DOMAIN pending_tool_calls
        /\ tasks[t].current_stage = "validated" /\ tasks[t].code_valid

\* C13: the validate/fix loop runs at most a hard maximum of fix stages (3 is
\* recommended, MaxFixIterations); a task that reaches it fails terminally.
C13_FixLoopBounded ==
    \A t \in Tasks : tasks[t].fix_iterations <= MaxFixIterations

\* C14: once is_complete, a task executes no further stage, issues no tool call
\* and none of its fields changes: all that remains is that run() returns.
C14_CompleteIsAbsorbing ==
    [][\A t \in Tasks :
          (tasks[t].is_complete /\ Moves(t)) =>
              /\ tasks[t].pc = "end"
              /\ tasks'[t] = [tasks[t] EXCEPT !.pc = "returned"]
              /\ pending_tool_calls' = pending_tool_calls]_vars

\* run() has returned a complete task while the server went on handling replies
C14_Witness ==
    /\ \E t \in Tasks : tasks[t].pc = "returned" /\ tasks[t].is_complete
    /\ last.type = "TOOL_RESPONSE" /\ last.id # 0 /\ last.callback = NoCallback

\* C15: when a generator call raises inside a stage, the task ends failed
\* (is_complete, error recorded) and the exception does not leave run().
C15_StageErrorBecomesFail ==
    \A t \in Tasks :
        tasks[t].pc = "raised" => (tasks[t].is_complete /\ tasks[t].error # None)

\* C16: every failed compile reply that leads to a retry has appended one entry to
\* error_history before generate runs again: after k retried failures the list
\* holds the k failures in order.
C16_RetryAppendsToErrorHistory ==
    \A t \in Tasks :
        tasks[t].current_stage = "retrying" =>
            tasks[t].error_history = [i \in 1..tasks[t].failures |-> i]

\* C17: the error of a task that failed by exhausting its retries lists the errors
\* of every failed compile attempt, in order.
C17_FailureListsEveryAttempt ==
    \A t \in Tasks :
        tasks[t].current_stage = "failed" =>
            tasks[t].error_lists = [i \in 1..tasks[t].failures |-> i]

\* C18: the first stage is analyze_image exactly when the task has a reference
\* image; then analyze, generate, validate follow in this order, and a task
\* without an image never executes analyze_image.
C18_ImageAnalysisIffImage ==
    [][\A t \in Tasks :
          /\ (tasks[t].pc = "entry" /\ Moves(t)) =>
                tasks'[t].pc = IF tasks[t].reference_image
                               THEN "analyze_image" ELSE "analyze"
          /\ (tasks[t].current_stage = "init" /\ tasks'[t].current_stage # "init") =>
                tasks'[t].current_stage = IF tasks[t].reference_image
                                          THEN "image_analyzed" ELSE "analyzed"
          /\ (tasks[t].pc = "analyze_image" /\ Moves(t)) =>
                tasks[t].reference_image /\ tasks'[t].pc \in {"analyze", "raised"}
          /\ (tasks[t].pc = "analyze" /\ Moves(t)) =>
                tasks'[t].pc \in {"generate", "raised"}
          /\ (tasks[t].pc = "generate" /\ Moves(t)) =>
                tasks'[t].pc \in {"validate", "raised"}]_vars

\* a task with a reference image has gone through image analysis to validate
C18_Witness ==
    \E t \in Tasks :
        /\ tasks[t].reference_image /\ tasks[t].calls = 0
        /\ tasks[t].pc = "fix" /\ tasks[t].current_stage = "validation_failed"

C20_BadFrameAnsweredConnectionKept ==
    [][(last' # last /\ last'.type \in RawShapes) =>
          /\ last'.response = IF last'.type = "unknown_type"
                              THEN "UNKNOWN_MESSAGE_TYPE" ELSE "PARSE_ERROR"
          /\ last'.conn \in DOMAIN connections'
          /\ UNCHANGED <<connections, closed, tasks, pending_tool_calls,
                         pending_confirms>>]_vars

Range(seq) == {seq[i] : i \in DOMAIN seq}

\* the checklist of validate_shader: what each item looks for and what it reports
Checklist ==
    <<[pattern |-> <<"Shader", " \"">>, message |-> "Missing Shader declaration"],
      [pattern |-> <<"Sub", "Shader">>, message |-> "Missing SubShader block"],
      [pattern |-> <<"Pass">>, message |-> "Missing Pass block"],
      [pattern |-> <<"#pragma vertex">>, message |-> "Missing #pragma vertex directive"],
      [pattern |-> <<"#pragma fragment">>,
       message |-> "Missing #pragma fragment directive"],
      [pattern |-> <<"com.unity.render-pipelines">>,
       message |-> "Missing URP include (Packages/com.unity.render-pipelines.universal/...)"],
      [pattern |-> <<"HLSLPROGRAM">>,
       message |-> "Missing HLSLPROGRAM block (using CGPROGRAM instead of HLSL?)"],
      [pattern |-> <<"ENDHLSL">>, message |-> "Missing ENDHLSL"]>>

\* C21: validate_shader passes exactly when its deficiency list is empty, and each
\* of the eight checklist items reports its deficiency exactly when its own text is
\* missing from the code, whatever the other items find, and at most once.
C21_ChecklistItemsIndependent ==
    vstate.runs > 0 =>
        /\ vstate.validation_passed <=> vstate.validation_errors = <<>>
        /\ \A k \in DOMAIN Checklist :
              /\ Checklist[k].message \in Range(vstate.validation_errors)
                    <=> ~In(Checklist[k].pattern, vstate.generated_code)
              /\ Cardinality({i \in DOMAIN vstate.validation_errors :
                                 vstate.validation_errors[i] = Checklist[k].message}) <= 1
        /\ Range(vstate.validation_errors) \subseteq
              {Checklist[k].message : k \in DOMAIN Checklist}

\* a code that lacks the Pass block and ENDHLSL and nothing else was validated
C21_Witness ==
    /\ vstate.runs > 0
    /\ vstate.validation_errors = <<"Missing Pass block", "Missing ENDHLSL">>
    /\ ~vstate.validation_passed

C23_IdSpacesIndependent ==
    [][/\ (ReplyStep /\ last'.type = "TOOL_RESPONSE") =>
             /\ pending_confirms' = pending_confirms
             /\ \A cb \in invoked' \ invoked : cb.kind = "tool"
       /\ (ReplyStep /\ last'.type = "CONFIRM_RESPONSE") =>
             /\ pending_tool_calls' = pending_tool_calls
             /\ tasks' = tasks
             /\ \A cb \in invoked' \ invoked : cb.kind = "confirm"]_vars

\* a confirmation was resolved under an id that is also the id of a tool call that
\* is still pending, and its task is still suspended
C23_Witness ==
    /\ last.type = "CONFIRM_RESPONSE" /\ last.callback # NoCallback
    /\ last.id \in DOMAIN pending_tool_calls
    /\ \E t \in Tasks : Suspended(t) /\ tasks[t].tool_call_id = last.id

Called(op) ==
    /\ ret'.op = op
    /\ ret' # ret \/ sm_sessions' # sm_sessions \/ sm_files' # sm_files

Min(a, b) == IF a < b THEN a ELSE b

\* C25: from a new Session, every set_current_shader call adds exactly one entry
\* to shader_history, holding the code and compile_success of the call, and makes
\* its code the current_shader: after n calls the history is the n calls in order.
C25_HistoryIsTheCalls ==
    [][\A id \in SessionIds :
          (Called("set_current_shader") /\ ret'.id = id) =>
              /\ sm_sessions'[id].shader_history =
                    Append(sm_sessions[id].shader_history,
                           ShaderVersion(ret'.code, ret'.compile_success))
              /\ sm_sessions'[id].current_shader = ret'.code]_vars

\* three calls, the second with the code the first had set
C25_Witness ==
    /\ 1 \in DOMAIN sm_sessions
    /\ sm_sessions[1].shader_history =
          <<ShaderVersion("A", FALSE), ShaderVersion("A", TRUE), ShaderVersion("", TRUE)>>
    /\ ret.op = "set_current_shader"

\* C26: for a session with n messages and every limit k >= 0, the context built
\* with max_messages = k holds the last min(k, n) messages in their order and no
\* earlier one, in build_context and in get_context_messages.
C26_ContextIsLastMessages ==
    [][\A id \in SessionIds :
          LET msgs == sm_sessions[id].messages
              n == Len(msgs)
              m == Min(ret'.k, n)
          IN /\ (Called("build_context") /\ ret'.id = id) =>
                   ret'.context = [i \in 1..m |->
                                     [prefix |-> Prefix(msgs[n - m + i].role),
                                      content |-> msgs[n - m + i].content]]
             /\ (Called("get_context_messages") /\ ret'.id = id) =>
                   ret'.context = [i \in 1..m |-> msgs[n - m + i]]]_vars

\* C27: get_or_create_session returns the stored session unchanged when the id has
\* one, in memory or on file, creates an empty session only when it has none, and
\* never replaces a session; no other id is touched.
C27_GetOrCreateKeepsExisting ==
    [][\A id \in SessionIds :
          (Called("get_or_create_session") /\ ret'.id = id) =>
              /\ ret'.obj = "stored" /\ id \in DOMAIN sm_sessions'
              /\ sm_sessions'[id] =
                    IF id \in DOMAIN sm_sessions THEN sm_sessions[id]
                    ELSE IF storage_path /\ id \in DOMAIN sm_files
                         THEN from_dict(sm_files[id])
                    ELSE Session(id)
              /\ \A other \in DOMAIN sm_sessions' \ {id} :
                    other \in DOMAIN sm_sessions
                    /\ sm_sessions'[other] = sm_sessions[other]
              /\ sm_files' = sm_files]_vars

\* get_or_create_session returned the stored session 1 with its message and shader
C27_Witness ==
    /\ ret.op = "get_or_create_session" /\ ret.id = 1 /\ ~ret.loaded
    /\ 1 \in DOMAIN sm_sessions
    /\ sm_sessions[1].messages # <<>> /\ sm_sessions[1].current_shader = "A"

\* C28: after delete_session(id) the id has no session in memory and none in
\* storage; get_session(id) returns None and list_sessions does not list it until
\* a session with that id is created again.
C28_DeletedStaysAbsent ==
    [][\A id \in SessionIds :
          LET absent == id \notin DOMAIN sm_sessions /\ id \notin DOMAIN sm_files
          IN /\ (Called("delete_session") /\ ret'.id = id) =>
                   id \notin DOMAIN sm_sessions' /\ id \notin DOMAIN sm_files'
             /\ (absent /\ Called("get_session") /\ ret'.id = id) =>
                   ret'.obj = "none" /\ id \notin DOMAIN sm_sessions'
             /\ (absent /\ Called("list_sessions")) =>
                   id \notin Range(ret'.list)
             /\ (absent /\ (id \in DOMAIN sm_sessions' \/ id \in DOMAIN sm_files')) =>
                   /\ ret'.op \in {"create_session", "get_or_create_session"}
                   /\ ret'.id = id]_vars

\* delete_session removed the file of session 1 (it returned True) and left the id
\* without a session, while session 2 stayed in memory and in storage
C28_Witness ==
    /\ storage_path
    /\ ret.op = "delete_session" /\ ret.id = 1 /\ ret.ok
    /\ 1 \notin DOMAIN sm_sessions /\ 1 \notin DOMAIN sm_files
    /\ 2 \in DOMAIN sm_files /\ 2 \in DOMAIN sm_sessions

\* C29: delete_session(id) returns True whenever the id had a session, in memory,
\* in storage or both, and False only when it had none.
C29_DeleteReportsDeletion ==
    [][\A id \in SessionIds :
          (Called("delete_session") /\ ret'.id = id) =>
              (ret'.ok <=> (id \in DOMAIN sm_sessions \/ id \in DOMAIN sm_files))]_vars

C32_RetryReentersAtGenerate ==
    \A t \in Tasks :
        tasks[t].calls > 0 =>
            /\ tasks[t].pc \notin {"entry", "analyze_image", "analyze"}
            /\ tasks[t].pc = "generate" => tasks[t].current_stage = "retrying"

\* C33: a TOOL_RESPONSE or CONFIRM_RESPONSE resolves a pending entry only when it
\* arrives on the connection for which the request was issued: a reply read from
\* another connection invokes no continuation and removes no entry.
C33_ReplyResolvesOnIssuingConnectionOnly ==
    [][ReplyStep =>
          /\ last'.callback # NoCallback => last'.callback.conn = last'.conn
          /\ \A id \in DOMAIN pending_tool_calls :
                pending_tool_calls[id].conn # last'.conn =>
                    id \in DOMAIN pending_tool_calls'
          /\ \A id \in DOMAIN pending_confirms :
                pending_confirms[id].conn # last'.conn =>
                    id \in DOMAIN pending_confirms']_vars

\* C34: when the continuation awaited for a tool or confirm reply raises, the
\* handler swallows the exception (it returns no message and the connection stays
\* open), the pending entry stays removed, and the continuation is never awaited
\* again: no pending entry holds a continuation that has been awaited.
C34_RaisingContinuationSwallowed ==
    /\ [][(last' # last /\ last'.raised) =>
             /\ last'.response = None
             /\ last'.conn \in DOMAIN connections'
             /\ UNCHANGED <<connections, closed>>
             /\ last'.id \notin DOMAIN (IF last'.type = "TOOL_RESPONSE"
                                        THEN pending_tool_calls' ELSE pending_confirms')]_vars
    /\ [](/\ reinvoked = {}
          /\ \A id \in DOMAIN pending_tool_calls : pending_tool_calls[id] \notin invoked
          /\ \A id \in DOMAIN pending_confirms : pending_confirms[id] \notin invoked)

\* the task still waits for a tool call whose continuation raised, and a repeated
\* reply with its id found nothing pending
C34_Witness ==
    /\ tasks[1].pc = "await"
    /\ last.type = "TOOL_RESPONSE" /\ last.id = tasks[1].tool_call_id
    /\ last.callback = NoCallback /\ ~last.raised
    /\ Callback("tool", 1, 1, tasks[1].calls) \in invoked

\* the histories of the sessions registered in this state are unchanged in the next
HistoriesKept ==
    \A id \in DOMAIN cm_sessions :
        /\ id \in DOMAIN cm_sessions'
        /\ cm_sessions'[id] = cm_sessions[id]

\* C35: a USER_MESSAGE read from a connection that has no session is answered
\* with ERROR NO_SESSION and changes nothing: no session is created, no history
\* grows.  On a connection with a session, a valid USER_MESSAGE appends exactly one
\* user message to the history of that session and to no other.
C35_UserMessageNeedsSession ==
    [][\A c \in Conns :
          /\ ((\E valid \in BOOLEAN : HandleUserMessage(c, valid))
                 /\ connections[c] = None) =>
                /\ last'.response = "NO_SESSION"
                /\ UNCHANGED <<connections, cm_sessions>>
          /\ (HandleUserMessage(c, TRUE) /\ connections[c] # None) =>
                LET id == connections[c]
                IN /\ DOMAIN cm_sessions' = DOMAIN cm_sessions
                   /\ cm_sessions'[id].conversation_history =
                          Append(cm_sessions[id].conversation_history,
                                 [role |-> "user", content |-> "a"])
                   /\ \A other \in DOMAIN cm_sessions \ {id} :
                          cm_sessions'[other] = cm_sessions[other]
                   /\ UNCHANGED connections]_vars

\* a connection without a session was answered NO_SESSION while the session of
\* another connection holds the user messages it received
C35_Witness ==
    /\ last.type = "USER_MESSAGE" /\ last.response = "NO_SESSION"
    /\ last.conn \in DOMAIN connections /\ connections[last.conn] = None
    /\ \E c \in DOMAIN connections :
          /\ connections[c] # None
          /\ Len(cm_sessions[connections[c]].conversation_history) = MaxHistory

SessionInitOutcome(c, sid) ==
    IF sid \in DOMAIN cm_sessions
    THEN /\ connections'[c] = sid
         /\ cm_sessions' = cm_sessions
         /\ last'.response = "SESSION_READY"
         /\ last'.session_id = sid /\ ~last'.is_new
    ELSE /\ HistoriesKept
         /\ Cardinality(DOMAIN cm_sessions' \ DOMAIN cm_sessions) = 1
         /\ \A new \in DOMAIN cm_sessions' \ DOMAIN cm_sessions :
               /\ cm_sessions'[new] = SessionState(new)
               /\ connections'[c] = new
               /\ last'.session_id = new
         /\ last'.response = "SESSION_READY" /\ last'.is_new

C38_BoundSessionsRegistered ==
    /\ [](\A c \in DOMAIN connections :
             connections[c] # None =>
                 /\ connections[c] \in DOMAIN cm_sessions
                 /\ cm_sessions[connections[c]].session_id = connections[c])
    /\ [][\A c \in Conns :
             remove_connection(c) =>
                 /\ cm_sessions' = cm_sessions
                 /\ DOMAIN connections' = DOMAIN connections \ {c}
                 /\ \A d \in DOMAIN connections' : connections'[d] = connections[d]
                 /\ c \notin DOMAIN connections => connections' = connections]_vars

\* a connection has gone, its session is still registered, and another connection
\* is bound to a session
C38_Witness ==
    /\ closed # {}
    /\ \E id \in DOMAIN cm_sessions : \A c \in DOMAIN connections : connections[c] # id
    /\ \E c \in DOMAIN connections : connections[c] # None

\* C39: the messages of one connection are handled one at a time in arrival
\* order: while frame n is handled or its response is sent, the frames handled so
\* far are exactly 1 .. n-1 in that order, and frame n+1 is read only when the
\* handling of frame n, the sending of its response included, has finished.
C39_OneMessageAtATimeInOrder ==
    /\ [](\A c \in Conns :
            /\ \A i \in 1..Len(conn_loop[c].done) : conn_loop[c].done[i] = i
            /\ conn_loop[c].pc # "read" => Len(conn_loop[c].done) = conn_loop[c].msg - 1)
    /\ [][\A c \in Conns :
             conn_loop'[c].msg # conn_loop[c].msg =>
                 /\ conn_loop[c].pc = "read"
                 /\ conn_loop'[c].msg = conn_loop[c].msg + 1
                 /\ Len(conn_loop[c].done) = conn_loop[c].msg]_vars

\* a response is being sent for the second frame of a connection while its third
\* frame waits in the websocket
C39_Witness ==
    \E c \in DOMAIN connections :
        /\ conn_loop[c].pc = "send" /\ conn_loop[c].msg = 2
        /\ conn_loop[c].done = <<1>>
        /\ conn_loop[c].inbox = <<3>>

====
